---- MODULE Spec2Model ----
(***************************************************************************)
(* The reproduction harness for mastra-ai/mastra#12284: one in-process     *)
(* script (client.ts, second program) and three HTTP client scripts        *)
(* (apps/client/src/index.ts full and minimal, client.ts first program),   *)
(* each calling orchestrator.network(), consuming the event stream and     *)
(* classifying the outcome.  The orchestration engine, the HTTP transport  *)
(* and the model provider are the environment: they decide whether the     *)
(* call returns, what the stream carries and which error is thrown.        *)
(***************************************************************************)
EXTENDS Integers, Sequences, FiniteSets, TLC

VARIABLES
    script,       \* which HTTP client script is the remote path of this run
    framework,    \* "unpatched" | "patched": the framework the server runs
    serverUp,     \* whether the server process is reachable
    pc,           \* per path: "start" | "calling" | "streaming" | "done" | "exited"
    request,      \* per path: the scenario handed to network()
    stream,       \* per path: "none" | "open" | "closed" | "stalled" | "failed"
    nChunks,      \* per path: chunks handled so far
    finalResult,  \* per path: the script's finalResult variable
    stepCount,    \* in-process script: routing steps counted
    eventTypes,   \* in-process script: set of chunk types seen
    caught,       \* per path: the error the catch block received, if any
    log,          \* per path: what the script printed, in order
    exitCode,     \* per path: the exit status of the process
    emitted,      \* per path: the chunks the engine put on the stream (traced runs)
    handled,      \* per path: the chunks the handler has run on (traced runs)
    requestCount, \* in-process script: the interceptor's requestCount
    fetchCalls,   \* in-process script: the calls made to the patched fetch
    forwarded,    \* in-process script: the calls made to the original fetch
    fetchLog,     \* in-process script: the lines the interceptor printed
    server,       \* the server process: its program, position and socket
    served        \* the requests sent to the server's port and their fate

vars == <<script, framework, serverUp, pc, request, stream, nChunks,
          finalResult, stepCount, eventTypes, caught, log, exitCode,
          emitted, handled, requestCount, fetchCalls, forwarded, fetchLog,
          server, served>>

(***************************************************************************)
(* Bounds of the model.                                                    *)
(***************************************************************************)
MaxMsgLen == 2
MaxChunks == 2

Paths == {"inproc", "remote"}
Scripts == {"full", "minimal", "root"}
Frameworks == {"unpatched", "patched"}

\* The program a path runs.
Prog(p) == IF p = "inproc" THEN "inproc" ELSE script

(***************************************************************************)
(* Error texts.  A text is a sequence of words; String.prototype.includes  *)
(* is the search for a contiguous run of words.                            *)
(***************************************************************************)
Words == {"Invalid", "schema", "additionalProperties", "required", "ECONNREFUSED"}

SeqsUpTo(S, n) == UNION {[1..k -> S] : k \in 0..n}

Messages == SeqsUpTo(Words, MaxMsgLen)

Includes(text, marker) ==
    \E i \in 1..(Len(text) - Len(marker) + 1) :
        SubSeq(text, i, i + Len(marker) - 1) = marker

MarkerAdditionalProperties == <<"additionalProperties">>
MarkerRequired == <<"required">>
MarkerInvalidSchema == <<"Invalid", "schema">>

\* "Invalid schema for response_format 'response': In context=(),
\*  'additionalProperties' is required to be supplied and to be false."
DocErrorAdditionalProperties ==
    <<"Invalid", "schema", "additionalProperties", "required">>

\* "Invalid schema for response_format 'response': In context=(), 'required'
\*  is required to be supplied ... Missing 'finalResult'."
DocErrorRequired == <<"Invalid", "schema", "required", "Missing">>

(***************************************************************************)
(* The marker test of each script's catch block.                           *)
(***************************************************************************)
IsSchemaErrorFull(message) ==
    \/ Includes(message, MarkerAdditionalProperties)
    \/ Includes(message, MarkerRequired)
    \/ Includes(message, MarkerInvalidSchema)

IsSchemaErrorMinimal(message) ==
    \/ Includes(message, MarkerAdditionalProperties)
    \/ Includes(message, MarkerInvalidSchema)

IsSchemaErrorRoot(message) ==
    \/ Includes(message, MarkerAdditionalProperties)
    \/ Includes(message, MarkerRequired)
    \/ Includes(message, MarkerInvalidSchema)

IsSchemaErrorInProc(message) ==
    \/ Includes(message, MarkerAdditionalProperties)
    \/ Includes(message, MarkerRequired)
    \/ Includes(message, MarkerInvalidSchema)

(***************************************************************************)
(* JavaScript values carried by chunks, and truthiness.                    *)
(***************************************************************************)
FalsyValues == {"undefined", "null", "false", "0", "''"}
TruthyValues == {"{answer:4}", "{object:{}}"}
JSValues == FalsyValues \cup TruthyValues

Truthy(v) == v \notin FalsyValues

(***************************************************************************)
(* Chunk types are hyphen-separated; a type is the sequence of its parts   *)
(* and type.includes(s) the search for the part s.                         *)
(***************************************************************************)
TNetworkObjectResult == <<"network", "object", "result">>
TNetworkObject == <<"network", "object">>
TRoutingAgentStart == <<"routing", "agent", "start">>
TAgentExecutionStart == <<"agent", "execution", "start">>
TToolResult == <<"agent", "execution", "event", "tool", "result">>
TTextDelta == <<"routing", "agent", "text", "delta">>

ChunkTypes == {TNetworkObjectResult, TNetworkObject, TRoutingAgentStart,
               TAgentExecutionStart, TToolResult, TTextDelta}

ChunksOver(types, payloads, objects) ==
    [type : types, payload : payloads, object : objects]

(***************************************************************************)
(* Scenarios: what each script passes to network().                        *)
(***************************************************************************)
Turn(role, content) == [role |-> role, content |-> content]

NoScenario == [turns |-> <<>>, schema |-> {}]

ScenarioFull ==
    [turns |-> <<Turn("user", "Search for 'capital of France', then calculate 100 + 200. Give me both results.")>>,
     schema |-> {<<"capital", "string">>, <<"calculation", "number">>}]

ScenarioMinimal ==
    [turns |-> <<Turn("user", "What is 2 + 2?")>>,
     schema |-> {<<"answer", "number">>}]

ScenarioRoot ==
    [turns |-> <<Turn("user", "Search for 'capital of France', then calculate 100 + 200. Give me both results.")>>,
     schema |-> {<<"capital", "string">>, <<"calculation", "number">>}]

ScenarioInProc ==
    [turns |-> <<Turn("user", "Search for 'population of Tokyo'"),
                 Turn("assistant", "I'll search for that information."),
                 Turn("user", "Now search for 'population of London'"),
                 Turn("assistant", "I'll search for that as well."),
                 Turn("user", "Now calculate the sum of the two populations you found and give me all the results.")>>,
     schema |-> {<<"tokyoPopulation", "string">>, <<"londonPopulation", "string">>,
                 <<"totalPopulation", "number">>}]

ScenarioOf(prog) ==
    CASE prog = "full" -> ScenarioFull
      [] prog = "minimal" -> ScenarioMinimal
      [] prog = "root" -> ScenarioRoot
      [] OTHER -> ScenarioInProc

(***************************************************************************)
(* Engine configurations: the orchestrator's model and its sub-agents.     *)
(***************************************************************************)
SubAgent(name, model, tools) == [name |-> name, model |-> model, tools |-> tools]

ConfigInProc ==
    [model |-> "openai/gpt-4o",
     agents |-> {SubAgent("researchAgent", "openai/gpt-4o-mini", {"search"}),
                 SubAgent("mathAgent", "openai/gpt-4o-mini", {"calculate"})}]

ConfigServer ==
    [model |-> "openai/gpt-4o",
     agents |-> {SubAgent("researchAgent", "openai/gpt-4o-mini", {"search"}),
                 SubAgent("mathAgent", "openai/gpt-4o-mini", {"calculate"})}]

ConfigMinimalServer ==
    [model |-> "openai/gpt-4o",
     agents |-> {SubAgent("subAgent", "openai/gpt-4o-mini", {})}]

\* Default ports: the server each client script reaches.
PortServer == 3000
PortMinimalServer == 4111
PortFullClient == 4111
PortMinimalClient == 4111
PortRootClient == 3000

ClientPort(prog) ==
    CASE prog = "full" -> PortFullClient
      [] prog = "minimal" -> PortMinimalClient
      [] OTHER -> PortRootClient

ConfigAtPort(port) ==
    IF port = PortServer THEN ConfigServer ELSE ConfigMinimalServer

\* The engine configuration that serves a path.
ConfigOf(p) ==
    IF p = "inproc" THEN ConfigInProc ELSE ConfigAtPort(ClientPort(script))

(***************************************************************************)
(* What a script prints: a tag per message, with the text it carries.      *)
(***************************************************************************)
Entry(tag, text) == [tag |-> tag, text |-> text]

NoText == <<>>

NotCaught == [thrown |-> FALSE, message |-> <<>>]

Caught(message) == [thrown |-> TRUE, message |-> message]

(***************************************************************************)
(* Stream handlers.                                                        *)
(***************************************************************************)
\* onChunk of the full client.
\* A handler that tests the object field before the chunk's type.
OnChunkObjectFirst(fr, chunk) ==
    IF Truthy(chunk.object) THEN chunk.object
    ELSE IF chunk.type = TNetworkObjectResult THEN chunk.payload
    ELSE fr

OnChunkFull(fr, chunk) ==
    IF chunk.type = TNetworkObjectResult THEN chunk.payload
    ELSE IF Truthy(chunk.object) THEN chunk.object
    ELSE fr

\* onChunk of the minimal client.
OnChunkMinimal(fr, chunk) ==
    IF chunk.type = TNetworkObjectResult THEN chunk.payload
    ELSE IF Truthy(chunk.object) THEN chunk.object
    ELSE fr

\* Body of the for-await loop of the root HTTP client.
OnChunkRoot(fr, chunk) ==
    IF chunk.type = TNetworkObjectResult THEN chunk.payload
    ELSE IF Truthy(chunk.object) THEN chunk.object
    ELSE fr

TypeIncludes(type, part) == Includes(type, <<part>>)

\* Body of the for-await loop of the in-process script: finalResult.
FinalResultInProc(fr, chunk) ==
    IF chunk.type = TRoutingAgentStart THEN fr
    ELSE IF chunk.type = TAgentExecutionStart THEN fr
    ELSE IF TypeIncludes(chunk.type, "object") \/ TypeIncludes(chunk.type, "result")
         THEN IF Truthy(chunk.payload) THEN chunk.payload
              ELSE IF Truthy(chunk.object) THEN chunk.object
              ELSE fr
    ELSE fr

\* A counter that takes every start event for a routing step.
StepCountAnyStart(sc, chunk) ==
    IF chunk.type \in {TRoutingAgentStart, TAgentExecutionStart} THEN sc + 1 ELSE sc

\* Body of the for-await loop of the in-process script: stepCount.
StepCountInProc(sc, chunk) ==
    IF chunk.type = TRoutingAgentStart THEN sc + 1 ELSE sc

FinalResultAfter(prog, fr, chunk) ==
    CASE prog = "full" -> OnChunkFull(fr, chunk)
      [] prog = "minimal" -> OnChunkMinimal(fr, chunk)
      [] prog = "root" -> OnChunkRoot(fr, chunk)
      [] OTHER -> FinalResultInProc(fr, chunk)

(***************************************************************************)
(* The branch after the stream has been consumed.                          *)
(***************************************************************************)
\* The result branch with its test inverted: if (!finalResult).
ResultLogFullInverted(fr) ==
    IF ~Truthy(fr)
    THEN <<Entry("final-output", <<fr>>), Entry("bug-not-triggered", NoText)>>
    ELSE <<Entry("no-structured-output", NoText)>>

ResultLogFull(fr) ==
    IF Truthy(fr)
    THEN <<Entry("final-output", <<fr>>), Entry("bug-not-triggered", NoText)>>
    ELSE <<Entry("no-structured-output", NoText)>>

\* A result branch that tests finalResult against null, not for truthiness.
ResultLogMinimalNotNull(fr) ==
    IF fr # "null"
    THEN <<Entry("bug-not-triggered", NoText), Entry("final-output", <<fr>>)>>
    ELSE <<Entry("no-structured-output", NoText)>>

ResultLogMinimal(fr) ==
    IF Truthy(fr)
    THEN <<Entry("bug-not-triggered", NoText), Entry("final-output", <<fr>>)>>
    ELSE <<Entry("no-structured-output", NoText)>>

ResultLogRoot(fr) ==
    IF Truthy(fr)
    THEN <<Entry("final-output", <<fr>>), Entry("bug-not-triggered", NoText)>>
    ELSE <<Entry("no-structured-output", NoText)>>

\* A result branch that prints SUCCESS only with a value in hand.
ResultLogInProcValueOnly(fr) ==
    IF Truthy(fr)
    THEN <<Entry("final-output", <<fr>>), Entry("success", NoText)>>
    ELSE <<Entry("no-structured-output", NoText)>>

ResultLogInProc(fr) ==
    (IF Truthy(fr)
     THEN <<Entry("final-output", <<fr>>)>>
     ELSE <<Entry("no-structured-output", NoText)>>)
    \o <<Entry("success", NoText)>>

ResultLog(prog, fr) ==
    CASE prog = "full" -> ResultLogFull(fr)
      [] prog = "minimal" -> ResultLogMinimal(fr)
      [] prog = "root" -> ResultLogRoot(fr)
      [] OTHER -> ResultLogInProc(fr)

(***************************************************************************)
(* The catch blocks.                                                       *)
(***************************************************************************)
CatchLogFull(message) ==
    <<Entry("error-reproduced", NoText), Entry("error-message", message)>>
    \o (IF IsSchemaErrorFull(message)
        THEN <<Entry("bug-confirmed", NoText)>>
        ELSE <<Entry("different-error", NoText)>>)

\* A catch block that prints the text of the errors it recognises only.
CatchLogMinimalSilent(message) ==
    IF IsSchemaErrorMinimal(message)
    THEN <<Entry("error-reproduced", NoText), Entry("error-message", message),
           Entry("bug-confirmed", NoText)>>
    ELSE <<Entry("error-reproduced", NoText)>>

CatchLogMinimal(message) ==
    <<Entry("error-reproduced", NoText), Entry("error-message", message)>>
    \o (IF IsSchemaErrorMinimal(message)
        THEN <<Entry("bug-confirmed", NoText)>>
        ELSE <<>>)

CatchLogRoot(message) ==
    <<Entry("error-reproduced", NoText), Entry("error-message", message)>>
    \o (IF IsSchemaErrorRoot(message)
        THEN <<Entry("bug-confirmed", NoText)>>
        ELSE <<Entry("different-error", NoText)>>)

CatchLogInProc(message) ==
    <<Entry("error-reproduced", NoText), Entry("error-message", message)>>
    \o (IF IsSchemaErrorInProc(message)
        THEN <<Entry("bug-confirmed", NoText)>>
        ELSE <<Entry("different-error", NoText)>>)

CatchLog(prog, message) ==
    CASE prog = "full" -> CatchLogFull(message)
      [] prog = "minimal" -> CatchLogMinimal(message)
      [] prog = "root" -> CatchLogRoot(message)
      [] OTHER -> CatchLogInProc(message)

\* Only the full client's catch block ends with process.exit(1).
ExitsOnErrorFullOnly(prog) == prog = "full"

\* The catch blocks that end with process.exit(1).
ExitsOnError(prog) == prog \in {"full", "minimal"}

\* process.exit(1) in a process shared by both paths: it ends them all.
ProcessExitEndsRun(p) ==
    /\ pc' = [q \in Paths |-> "exited"]
    /\ exitCode' = [q \in Paths |-> 1]

\* process.exit(1): ends the process of path p, and only that process.
ProcessExit(p) ==
    /\ pc' = [pc EXCEPT ![p] = "exited"]
    /\ exitCode' = [exitCode EXCEPT ![p] = 1]

\* main() returns: the process of path p ends with the default status.
MainReturns(p) ==
    /\ pc' = [pc EXCEPT ![p] = "done"]
    /\ exitCode' = exitCode

\* The catch block of path p's script, run on the thrown error.
Catch(p, message) ==
    /\ caught' = [caught EXCEPT ![p] = Caught(message)]
    /\ log' = [log EXCEPT ![p] = @ \o CatchLog(Prog(p), message)]
    /\ IF ExitsOnError(Prog(p)) THEN ProcessExit(p) ELSE MainReturns(p)

(***************************************************************************)
(* The environment: what the engine and the transport may do on a path.    *)
(***************************************************************************)
\* An unreachable server refuses the call; nothing refuses an in-process call.
CallMayReturn(p) == p = "inproc" \/ serverUp

\* Over HTTP the unpatched framework is rejected by the provider at the
\* routing step: nothing but routing-start events precede the error.
EngineMayEmit(p, chunk) ==
    (p = "remote" /\ framework = "unpatched") => chunk.type = TRoutingAgentStart

EngineMayClose(p) == ~(p = "remote" /\ framework = "unpatched")

\* The error texts the environment may throw on path p: over HTTP the
\* unpatched framework fails with the provider's rejection of the schema.
ThrownTexts(p, texts) ==
    IF p = "remote" /\ serverUp /\ framework = "unpatched"
    THEN {DocErrorAdditionalProperties}
    ELSE texts

\* No server process has been started.
NoServer ==
    [kind |-> "none", at |-> 1, init |-> "none", routes |-> {},
     listen |-> "none", log |-> <<>>]

(***************************************************************************)
(* Initial state: nothing has run.                                         *)
(***************************************************************************)
Init ==
    /\ script \in Scripts
    /\ framework \in Frameworks
    /\ serverUp \in BOOLEAN
    /\ pc = [p \in Paths |-> "start"]
    /\ request = [p \in Paths |-> NoScenario]
    /\ stream = [p \in Paths |-> "none"]
    /\ nChunks = [p \in Paths |-> 0]
    /\ finalResult = [p \in Paths |-> "null"]
    /\ stepCount = 0
    /\ eventTypes = {}
    /\ caught = [p \in Paths |-> NotCaught]
    /\ log = [p \in Paths |-> <<>>]
    /\ exitCode = [p \in Paths |-> 0]
    /\ emitted = [p \in Paths |-> <<>>]
    /\ handled = [p \in Paths |-> <<>>]
    /\ requestCount = 0
    /\ fetchCalls = <<>>
    /\ forwarded = <<>>
    /\ fetchLog = <<>>
    /\ server = NoServer
    /\ served = <<>>

(***************************************************************************)
(* Actions.                                                                *)
(***************************************************************************)
\* network(...) is called: the request is handed over and the script is
\* held at the await until the promise settles.
CallMade(p) ==
    /\ pc[p] = "start"
    /\ request' = [request EXCEPT ![p] = ScenarioOf(Prog(p))]
    /\ pc' = [pc EXCEPT ![p] = "calling"]
    /\ UNCHANGED <<emitted, handled>>
    /\ UNCHANGED <<requestCount, fetchCalls, forwarded, fetchLog, server, served>>
    /\ UNCHANGED <<script, framework, serverUp, stream, nChunks, finalResult,
                   stepCount, eventTypes, caught, log, exitCode>>

\* await network(...) resolves: the script reports it and starts consuming.
CallReturns(p) ==
    /\ pc[p] = "calling"
    /\ CallMayReturn(p)
    /\ pc' = [pc EXCEPT ![p] = "streaming"]
    /\ stream' = [stream EXCEPT ![p] = "open"]
    /\ log' = [log EXCEPT ![p] = @ \o <<Entry("request-succeeded", NoText)>>]
    /\ UNCHANGED <<emitted, handled>>
    /\ UNCHANGED <<requestCount, fetchCalls, forwarded, fetchLog, server, served>>
    /\ UNCHANGED <<script, framework, serverUp, request, nChunks, finalResult,
                   stepCount, eventTypes, caught, exitCode>>

\* await network(...) rejects: the catch block runs.
CallThrows(p, message) ==
    /\ pc[p] = "calling"
    /\ Catch(p, message)
    /\ UNCHANGED <<emitted, handled>>
    /\ UNCHANGED <<requestCount, fetchCalls, forwarded, fetchLog, server, served>>
    /\ UNCHANGED <<script, framework, serverUp, request, stream, nChunks,
                   finalResult, stepCount, eventTypes>>

\* One pass of path p's loop body or onChunk callback over a chunk.
Handle(p, chunk) ==
    /\ nChunks' = [nChunks EXCEPT ![p] = @ + 1]
    /\ finalResult' = [finalResult EXCEPT ![p] = FinalResultAfter(Prog(p), @, chunk)]
    /\ stepCount' = IF p = "inproc" THEN StepCountInProc(stepCount, chunk) ELSE stepCount
    /\ eventTypes' = IF p = "inproc" THEN eventTypes \cup {chunk.type} ELSE eventTypes

\* The stream delivers a chunk and the handler runs on it.
EmitChunk(p, chunk) ==
    /\ pc[p] = "streaming"
    /\ stream[p] = "open"
    /\ nChunks[p] < MaxChunks
    /\ EngineMayEmit(p, chunk)
    /\ Handle(p, chunk)
    /\ UNCHANGED <<emitted, handled>>
    /\ UNCHANGED <<requestCount, fetchCalls, forwarded, fetchLog, server, served>>
    /\ UNCHANGED <<script, framework, serverUp, pc, request, stream, caught,
                   log, exitCode>>

\* The stream ends: the result branch runs and main() returns.
StreamCloses(p) ==
    /\ pc[p] = "streaming"
    /\ stream[p] = "open"
    /\ EngineMayClose(p)
    /\ stream' = [stream EXCEPT ![p] = "closed"]
    /\ log' = [log EXCEPT ![p] = @ \o ResultLog(Prog(p), finalResult[p])]
    /\ MainReturns(p)
    /\ UNCHANGED <<emitted, handled>>
    /\ UNCHANGED <<requestCount, fetchCalls, forwarded, fetchLog, server, served>>
    /\ UNCHANGED <<script, framework, serverUp, request, nChunks, finalResult,
                   stepCount, eventTypes, caught>>

\* The stream fails while it is consumed: the catch block runs.
StreamThrows(p, message) ==
    /\ pc[p] = "streaming"
    /\ stream[p] = "open"
    /\ stream' = [stream EXCEPT ![p] = "failed"]
    /\ Catch(p, message)
    /\ UNCHANGED <<emitted, handled>>
    /\ UNCHANGED <<requestCount, fetchCalls, forwarded, fetchLog, server, served>>
    /\ UNCHANGED <<script, framework, serverUp, request, nChunks, finalResult,
                   stepCount, eventTypes>>

\* The engine or the server stops emitting without closing the stream.
Stall(p) ==
    /\ pc[p] = "streaming"
    /\ stream[p] = "open"
    /\ stream' = [stream EXCEPT ![p] = "stalled"]
    /\ UNCHANGED <<emitted, handled>>
    /\ UNCHANGED <<requestCount, fetchCalls, forwarded, fetchLog, server, served>>
    /\ UNCHANGED <<script, framework, serverUp, pc, request, nChunks,
                   finalResult, stepCount, eventTypes, caught, log, exitCode>>

(***************************************************************************)
(* The inputs of the two-path run.                                         *)
(***************************************************************************)
RemoteTexts == Messages
InProcTexts == {<<"ECONNREFUSED">>, <<"required">>, DocErrorRequired}

RemoteChunks ==
    ChunksOver({TNetworkObjectResult, TNetworkObject, TRoutingAgentStart},
               {"undefined", "0", "{answer:4}"},
               {"undefined", "{object:{}}"})

InProcChunks ==
    ChunksOver({TNetworkObjectResult, TRoutingAgentStart, TAgentExecutionStart},
               {"undefined", "{answer:4}"},
               {"undefined"})

TextsOf(p) == IF p = "inproc" THEN InProcTexts ELSE RemoteTexts
ChunksOf(p) == IF p = "inproc" THEN InProcChunks ELSE RemoteChunks

\* One step of path p's process or of its environment.
PathStep(p) ==
    \/ CallMade(p)
    \/ CallReturns(p)
    \/ \E m \in ThrownTexts(p, TextsOf(p)) : CallThrows(p, m)
    \/ \E c \in ChunksOf(p) : EmitChunk(p, c)
    \/ StreamCloses(p)
    \/ \E m \in ThrownTexts(p, TextsOf(p)) : StreamThrows(p, m)
    \/ Stall(p)

Next == \E p \in Paths : PathStep(p)

Spec == Init /\ [][Next]_vars

(***************************************************************************)
(* Traced runs of one script alone.  The engine puts chunks on the stream, *)
(* the script's loop takes them off one by one; what was emitted and what  *)
(* was handled is recorded.  The server is reachable and the stream may    *)
(* carry any chunk.                                                        *)
(***************************************************************************)
StreamChunks ==
    ChunksOver({TNetworkObjectResult, TToolResult, TTextDelta, TRoutingAgentStart,
                TAgentExecutionStart},
               {"undefined", "0", "{answer:4}"},
               {"undefined", "{object:{}}"})

StreamTexts == {<<"ECONNREFUSED">>, <<"additionalProperties">>}

\* The other script has not been started.
Alone(p) == \A q \in Paths \ {p} : pc[q] = "start"

\* Every chunk put on the stream has been handled.
Drained(p) == Len(handled[p]) = Len(emitted[p])

\* The engine puts one more chunk on path p's stream.
EngineEmits(p, chunk) ==
    /\ pc[p] = "streaming"
    /\ stream[p] = "open"
    /\ Len(emitted[p]) < MaxChunks
    /\ EngineMayEmit(p, chunk)
    /\ emitted' = [emitted EXCEPT ![p] = Append(@, chunk)]
    /\ UNCHANGED <<script, framework, serverUp, pc, request, stream, nChunks,
                   finalResult, stepCount, eventTypes, caught, log, exitCode,
                   handled>>
    /\ UNCHANGED <<requestCount, fetchCalls, forwarded, fetchLog, server, served>>

\* The chunk the next iteration of the loop receives: the first one not
\* yet handled.  That chunks arrive in the order they were emitted is the
\* ordering guarantee of the stream ('for await', processDataStream),
\* taken from the specification: the scripts do not decide it.
NextChunk(p) == emitted[p][Len(handled[p]) + 1]

\* One iteration of the loop.  The loop bodies and onChunk callbacks hold
\* no await, so the handler runs to its end on the chunk in one step.
HandlerRuns(p) ==
    /\ pc[p] = "streaming"
    /\ stream[p] = "open"
    /\ ~Drained(p)
    /\ Handle(p, NextChunk(p))
    /\ handled' = [handled EXCEPT ![p] = Append(@, NextChunk(p))]
    /\ UNCHANGED <<script, framework, serverUp, pc, request, stream, caught,
                   log, exitCode, emitted>>
    /\ UNCHANGED <<requestCount, fetchCalls, forwarded, fetchLog, server, served>>

\* The end of the stream reaches the loop after every chunk before it:
\* again the stream's guarantee, not a decision of the scripts.
StreamEnds(p) == Drained(p) /\ StreamCloses(p)

\* The script is started while the other one is not running.
StartsAlone(p) == Alone(p) /\ CallMade(p)

\* A failure of the stream overtakes the chunks still waiting on it: the
\* loop's next read rejects and they are never handled.
TracedStep(p) ==
    \/ StartsAlone(p)
    \/ CallReturns(p)
    \/ \E c \in StreamChunks : EngineEmits(p, c)
    \/ HandlerRuns(p)
    \/ StreamEnds(p)
    \/ \E m \in ThrownTexts(p, StreamTexts) : StreamThrows(p, m)

InitStream == Init /\ serverUp /\ framework = "patched"

NextStream == \E p \in Paths : TracedStep(p)

SpecStream == InitStream /\ [][NextStream]_vars

(***************************************************************************)
(* The fetch interceptor of the in-process script (client.ts): it replaces *)
(* globalThis.fetch, counts and logs the requests sent to OpenAI and hands *)
(* every call on to the original fetch.  Its body up to the call of the    *)
(* original fetch has no await: it runs as one step.                       *)
(***************************************************************************)
MaxCalls == 2

\* URLs are sequences of parts, searched like the error texts.
OpenAIUrl == <<"https://api.", "openai.com", "/v1/chat/completions">>
OtherUrl == <<"http://localhost:4111", "/api/agents/orchestrator/network">>
MarkerOpenAI == <<"openai.com">>

\* The first argument: a string, or a Request or URL object.
FetchInputs ==
    {[isString |-> TRUE, url |-> OpenAIUrl],
     [isString |-> TRUE, url |-> OtherUrl],
     [isString |-> FALSE, url |-> OpenAIUrl]}

\* Request bodies: none, the empty string, and texts in quotes.
Bodies ==
    {"undefined", "''", "'not json'", "'null'", "'{model}'",
     "'{response_format:{type}}'", "'{response_format:{json_schema}}'"}

NoInit == [given |-> FALSE, body |-> "undefined"]

FetchInits == {NoInit} \cup {[given |-> TRUE, body |-> b] : b \in Bodies}

\* init?.body
BodyOf(init) == IF init.given THEN init.body ELSE "undefined"

\* The condition under which the interceptor looks at a call.
Intercepted(input, init) ==
    /\ input.isString
    /\ Includes(input.url, MarkerOpenAI)
    /\ Truthy(BodyOf(init))

\* JSON.parse of a body text: whether it throws, and what the value has.
ParseJSON(text) ==
    [threw |-> text = "'not json'",
     isNull |-> text = "'null'",
     responseFormat |-> text \in {"'{response_format:{type}}'",
                                  "'{response_format:{json_schema}}'"},
     jsonSchema |-> text = "'{response_format:{json_schema}}'"]

\* The try block throws: JSON.parse does, or reading a property of null.
TryBlockThrows(text) == ParseJSON(text).threw \/ ParseJSON(text).isNull

\* A counter incremented after the body was parsed.
CountAfterParsed(rc, input, init) ==
    IF Intercepted(input, init) /\ ~ParseJSON(BodyOf(init)).threw THEN rc + 1 ELSE rc

\* requestCount after a call: the increment is the first statement of the
\* try block.
CountAfter(rc, input, init) ==
    IF Intercepted(input, init) THEN rc + 1 ELSE rc

FetchLine(tag, n) == [tag |-> tag, n |-> n]

\* The lines one call prints, requestCount being rc when it starts.
LinesPrinted(rc, input, init) ==
    IF ~Intercepted(input, init) THEN <<>>
    ELSE IF TryBlockThrows(BodyOf(init)) THEN <<FetchLine("parse-failed", 0)>>
    ELSE IF ParseJSON(BodyOf(init)).responseFormat
         THEN <<FetchLine("openai-request", rc + 1), FetchLine("url", 0),
                FetchLine("response-format", 0)>>
              \o (IF ParseJSON(BodyOf(init)).jsonSchema
                  THEN <<FetchLine("json-schema-found", 0), FetchLine("json-schema", 0)>>
                  ELSE <<>>)
              \o <<FetchLine("end-request", 0)>>
    ELSE <<>>

\* An interceptor that gives up a request whose body it could not read.
ForwardsUnlessUnreadable(input, init) ==
    IF Intercepted(input, init) /\ TryBlockThrows(BodyOf(init))
    THEN <<>>
    ELSE <<[input |-> input, init |-> init]>>

\* The calls of the original fetch one call makes: one, with the same
\* arguments, after the if statement.
InterceptorForwards(input, init) == <<[input |-> input, init |-> init]>>

\* A call of the patched fetch, up to the call of the original fetch.
\* The engine makes it while the script waits for network() or its stream.
FetchCalled(input, init) ==
    /\ pc["inproc"] \in {"calling", "streaming"}
    /\ Len(fetchCalls) < MaxCalls
    /\ requestCount' = CountAfter(requestCount, input, init)
    /\ fetchLog' = fetchLog \o LinesPrinted(requestCount, input, init)
    /\ fetchCalls' =
          Append(fetchCalls,
                 [input |-> input, init |-> init,
                  result |-> IF InterceptorForwards(input, init) = <<>>
                             THEN "undefined" ELSE "pending"])
    /\ forwarded' =
          forwarded \o
          [k \in 1..Len(InterceptorForwards(input, init)) |->
              [caller |-> Len(fetchCalls) + 1,
               input |-> InterceptorForwards(input, init)[k].input,
               init |-> InterceptorForwards(input, init)[k].init,
               outcome |-> "pending"]]
    /\ UNCHANGED <<script, framework, serverUp, pc, request, stream, nChunks,
                   finalResult, stepCount, eventTypes, caught, log, exitCode,
                   emitted, handled, server, served>>

FetchOutcomes == {"response", "network-error"}

\* The promise of the original fetch settles.
OriginalFetchSettles(k, outcome) ==
    /\ k \in 1..Len(forwarded)
    /\ forwarded[k].outcome = "pending"
    /\ forwarded' = [forwarded EXCEPT ![k].outcome = outcome]
    /\ UNCHANGED <<script, framework, serverUp, pc, request, stream, nChunks,
                   finalResult, stepCount, eventTypes, caught, log, exitCode,
                   emitted, handled, requestCount, fetchCalls, fetchLog,
                   server, served>>

\* The interceptor is an async function: the promise its caller holds is
\* its own, resolved with the original fetch's promise, and follows that
\* one some microtasks after it has settled.
InterceptorSettles(i) ==
    /\ i \in 1..Len(fetchCalls)
    /\ fetchCalls[i].result = "pending"
    /\ \E k \in 1..Len(forwarded) :
           /\ forwarded[k].caller = i
           /\ forwarded[k].outcome # "pending"
           /\ fetchCalls' = [fetchCalls EXCEPT ![i].result = forwarded[k].outcome]
    /\ UNCHANGED <<script, framework, serverUp, pc, request, stream, nChunks,
                   finalResult, stepCount, eventTypes, caught, log, exitCode,
                   emitted, handled, requestCount, forwarded, fetchLog,
                   server, served>>

InitFetch == Init /\ script = "full" /\ framework = "patched" /\ serverUp

NextFetch ==
    \/ CallMade("inproc")
    \/ \E input \in FetchInputs, init \in FetchInits : FetchCalled(input, init)
    \/ \E k \in 1..MaxCalls, o \in FetchOutcomes : OriginalFetchSettles(k, o)
    \/ \E i \in 1..MaxCalls : InterceptorSettles(i)

SpecFetch == InitFetch /\ [][NextFetch]_vars

(***************************************************************************)
(* The two server scripts.  The Express server (unnamed/part_001) awaits   *)
(* MastraServer.init(), registers /health and calls app.listen with a      *)
(* callback; server.ts calls mastra.serve() and goes on.  A script runs    *)
(* its statements in order; the socket, the listen callback and the        *)
(* request handlers get their turn only while the script awaits or after   *)
(* its last statement.                                                     *)
(***************************************************************************)
MaxRequests == 2

ServerKinds == {"express", "serve"}

Routes == {"agents", "health"}

\* A script that starts listening before it has initialised the adapter.
ExpressProgramListenFirst == <<"log-starting", "listen", "init", "health">>

\* The statements of unnamed/part_001, in order.
ExpressProgram == <<"log-starting", "init", "health", "listen">>

\* The statements of server.ts, in order.
ServeProgram == <<"log-starting", "serve", "log-running">>

ProgramOf(kind) == IF kind = "express" THEN ExpressProgram ELSE ServeProgram

\* The script has a statement to run and is not held by an await.
AtStatement(stmt) ==
    /\ server.kind \in ServerKinds
    /\ server.init \notin {"pending", "failed"}
    /\ server.at <= Len(ProgramOf(server.kind))
    /\ ProgramOf(server.kind)[server.at] = stmt

\* The event loop is free: the script awaits, or has run its last statement.
Idle ==
    /\ server.kind \in ServerKinds
    /\ server.init # "failed"
    /\ server.init = "pending" \/ server.at > Len(ProgramOf(server.kind))

ServerUnchanged ==
    UNCHANGED <<script, framework, serverUp, pc, request, stream, nChunks,
                finalResult, stepCount, eventTypes, caught, log, exitCode,
                emitted, handled, requestCount, fetchCalls, forwarded, fetchLog>>

\* One of the server scripts is launched.
ServerStarts(kind) ==
    /\ server = NoServer
    /\ server' = [server EXCEPT !.kind = kind]
    /\ UNCHANGED served
    /\ ServerUnchanged

\* console.log("Starting ... server on port ...")
LogStarting ==
    /\ AtStatement("log-starting")
    /\ server' = [server EXCEPT !.log = Append(@, "starting"), !.at = @ + 1]
    /\ UNCHANGED served
    /\ ServerUnchanged

\* await server.init(): the script is held until init settles.
InitCalled ==
    /\ AtStatement("init")
    /\ server.init = "none"
    /\ server' = [server EXCEPT !.init = "pending"]
    /\ UNCHANGED served
    /\ ServerUnchanged

\* init() resolves: the agent routes are on the app, the script goes on.
InitCompletes ==
    /\ server.init = "pending"
    /\ server' = [server EXCEPT !.init = "done", !.routes = @ \cup {"agents"},
                                 !.at = @ + 1]
    /\ UNCHANGED served
    /\ ServerUnchanged

\* init() rejects: the top-level await throws and the process ends.
InitFails ==
    /\ server.init = "pending"
    /\ server' = [server EXCEPT !.init = "failed"]
    /\ UNCHANGED served
    /\ ServerUnchanged

\* app.get("/health", ...)
HealthRegistered ==
    /\ AtStatement("health")
    /\ server' = [server EXCEPT !.routes = @ \cup {"health"}, !.at = @ + 1]
    /\ UNCHANGED served
    /\ ServerUnchanged

\* app.listen(PORT, callback): returns at once, the socket binds later.
ListenCalled ==
    /\ AtStatement("listen")
    /\ server' = [server EXCEPT !.listen = "binding", !.at = @ + 1]
    /\ UNCHANGED served
    /\ ServerUnchanged

\* mastra.serve({port}): not awaited; it builds its routes and binds later.
ServeCalled ==
    /\ AtStatement("serve")
    /\ server' = [server EXCEPT !.listen = "binding", !.at = @ + 1]
    /\ UNCHANGED served
    /\ ServerUnchanged

\* console.log("Mastra server running ...") as a statement of server.ts.
LogRunning ==
    /\ AtStatement("log-running")
    /\ server' = [server EXCEPT !.log = Append(@, "running"), !.at = @ + 1]
    /\ UNCHANGED served
    /\ ServerUnchanged

\* The socket is bound.  Express then runs the listen callback, which
\* prints the running message; mastra.serve has its routes in place.
SocketBound ==
    /\ Idle
    /\ server.listen = "binding"
    /\ server' =
          IF server.kind = "express"
          THEN [server EXCEPT !.listen = "listening", !.log = Append(@, "running")]
          ELSE [server EXCEPT !.listen = "listening", !.routes = @ \cup {"agents"}]
    /\ UNCHANGED served
    /\ ServerUnchanged

\* The port cannot be bound.  The Express version is not pinned: Express 4
\* runs the listen callback on 'listening' only, Express 5 also on the
\* error, and the callback, which ignores its argument, prints the running
\* message all the same.  mastra.serve is given no callback.
BindFails(callbackRuns) ==
    /\ Idle
    /\ server.listen = "binding"
    /\ callbackRuns => server.kind = "express"
    /\ server' =
          IF callbackRuns
          THEN [server EXCEPT !.listen = "failed", !.log = Append(@, "running")]
          ELSE [server EXCEPT !.listen = "failed"]
    /\ UNCHANGED served
    /\ ServerUnchanged

\* What becomes of a request for a route sent to the server's port now.
FateOf(route) ==
    IF server.listen # "listening" \/ server.init = "failed" THEN "refused"
    ELSE IF route \in server.routes THEN "ok"
    ELSE "not-found"

\* A client sends a request; a listening server handles it when the
\* event loop is free.
RequestArrives(route) ==
    /\ Len(served) < MaxRequests
    /\ FateOf(route) = "refused" \/ Idle
    /\ served' = Append(served, [route |-> route, fate |-> FateOf(route)])
    /\ UNCHANGED server
    /\ ServerUnchanged

InitServer == Init /\ script = "minimal" /\ framework = "unpatched" /\ serverUp

NextServer ==
    \/ \E kind \in ServerKinds : ServerStarts(kind)
    \/ LogStarting
    \/ InitCalled
    \/ InitCompletes
    \/ InitFails
    \/ HealthRegistered
    \/ ListenCalled
    \/ ServeCalled
    \/ LogRunning
    \/ SocketBound
    \/ \E callbackRuns \in BOOLEAN : BindFails(callbackRuns)
    \/ \E route \in Routes : RequestArrives(route)

SpecServer == InitServer /\ [][NextServer]_vars

(***************************************************************************)
(* Observations of a run: what each script's output means.                 *)
(***************************************************************************)
Finished(p) == pc[p] \in {"done", "exited"}

HasTag(p, tag) == \E i \in 1..Len(log[p]) : log[p][i].tag = tag

\* The path ended in the catch block.
Failed(p) == Finished(p) /\ caught[p].thrown

\* The path ended by printing the structured value it captured.
Succeeded(p) == Finished(p) /\ HasTag(p, "final-output")

\* How the script's catch block classified its error.
Classification(p) ==
    IF HasTag(p, "bug-confirmed") THEN "schema-validation" ELSE "unknown"

\* The verdict the HTTP client script prints: "confirms #12284", "bug was
\* NOT triggered", "different error occurred", or nothing at all.
Verdict ==
    IF HasTag("remote", "bug-confirmed") THEN "bug-confirmed"
    ELSE IF HasTag("remote", "bug-not-triggered") THEN "bug-absent"
    ELSE IF HasTag("remote", "different-error") THEN "anomalous"
    ELSE "none"

(***************************************************************************)
(* C1.  If the in-process path succeeded and the remote path, its server   *)
(* reachable, failed with an error text containing 'required' or           *)
(* 'additionalProperties', the verdict is bug-confirmed, for every client  *)
(* script.                                                                 *)
(* Fails: the minimal client does not test for 'required'.                 *)
(***************************************************************************)
C1_MarkerMeansBugConfirmed ==
    ( /\ Succeeded("inproc")
      /\ serverUp
      /\ Failed("remote")
      /\ \/ Includes(caught["remote"].message, MarkerRequired)
         \/ Includes(caught["remote"].message, MarkerAdditionalProperties) )
    => Verdict = "bug-confirmed"

(***************************************************************************)
(* C2.  When the server is unreachable the remote outcome is a failure     *)
(* that is not classified schema-validation, and the verdict is anomalous, *)
(* never bug-confirmed, whatever the text of the network error.            *)
(* Fails: the catch blocks classify by text alone.                         *)
(***************************************************************************)
C2_UnreachableIsNeverBugConfirmed ==
    (~serverUp /\ Finished("remote"))
    => /\ Failed("remote")
       /\ Classification("remote") # "schema-validation"
       /\ Verdict = "anomalous"

(***************************************************************************)
(* C3.  The request [user: "What is 2 + 2?"] with shape {answer: number}   *)
(* succeeds in-process and, under the unpatched framework, fails over HTTP *)
(* with a schema-validation error naming additionalProperties, verdict     *)
(* bug-confirmed; under the patched framework the remote call succeeds and *)
(* the verdict is bug-absent.  Runs in which the environment injects an    *)
(* unrelated in-process error are left out.                                *)
(* Fails: no in-process run sends this request, and a stream that closes   *)
(* without a result yields no verdict.                                     *)
(***************************************************************************)
C3_SameRequestDiffersAcrossBoundary ==
    ( /\ script = "minimal"
      /\ serverUp
      /\ Finished("inproc") /\ ~caught["inproc"].thrown
      /\ Finished("remote")
      /\ framework = "patched" => ~caught["remote"].thrown )
    => /\ request["remote"] = ScenarioMinimal
       /\ request["inproc"] = ScenarioMinimal
       /\ Succeeded("inproc")
       /\ framework = "unpatched" =>
            /\ Failed("remote")
            /\ Classification("remote") = "schema-validation"
            /\ Includes(caught["remote"].message, MarkerAdditionalProperties)
            /\ Verdict = "bug-confirmed"
       /\ framework = "patched" =>
            /\ Succeeded("remote")
            /\ Verdict = "bug-absent"

(***************************************************************************)
(* C4.  Both paths are given the identical scenario and the engine on each *)
(* side has the same model and sub-agent configuration.                    *)
(* Fails: every script sends its own scenario.                             *)
(***************************************************************************)
C4_IdenticalScenarioAndConfig ==
    (request["inproc"] # NoScenario /\ request["remote"] # NoScenario)
    => /\ request["inproc"] = request["remote"]
       /\ ConfigOf("inproc") = ConfigOf("remote")

(***************************************************************************)
(* C5.  Every finished path has exactly one terminal status: success with  *)
(* a value or failure with an error, never neither and never both.         *)
(* Fails: a stream that closes without a result ends with neither.         *)
(***************************************************************************)
C5_ExactlyOneTerminalStatus ==
    \A p \in Paths :
        Finished(p) => /\ Succeeded(p) \/ Failed(p)
                       /\ ~(Succeeded(p) /\ Failed(p))

(***************************************************************************)
(* C6.  The client process exits with status 0 on every completed run,     *)
(* whatever the verdict.                                                   *)
(* Fails: the catch blocks of apps/client end with process.exit(1).        *)
(***************************************************************************)
C6_ExitZeroWhateverTheVerdict ==
    Finished("remote") => exitCode["remote"] = 0

(***************************************************************************)
(* C7.  When both paths complete and yield a structured value, the client  *)
(* reports that the bug was not triggered: the verdict is bug-absent.      *)
(***************************************************************************)
CompletedWithValue(p) ==
    /\ pc[p] = "done"
    /\ ~caught[p].thrown
    /\ stream[p] = "closed"
    /\ Truthy(finalResult[p])

\* C7: both paths completed with a structured value => verdict bug-absent.
C7_BothSucceedBugAbsent ==
    (CompletedWithValue("inproc") /\ CompletedWithValue("remote"))
    => Verdict = "bug-absent"

C7_Witness ==
    /\ CompletedWithValue("inproc")
    /\ CompletedWithValue("remote")
    /\ nChunks["remote"] = MaxChunks
    /\ Verdict = "bug-absent"

(***************************************************************************)
(* C8.  With the server reachable, the verdict is the Reporter's table     *)
(* applied to the two outcomes: total over success and failure with any    *)
(* classification, anomalous for every combination the table does not list.*)
(* Fails: the client's verdict never looks at the in-process outcome.      *)
(***************************************************************************)
OutcomeOf(p) ==
    IF Succeeded(p) THEN "success" ELSE Classification(p)

ReporterTable(inproc, remote) ==
    CASE inproc = "success" /\ remote = "success" -> "bug-absent"
      [] inproc = "success" /\ remote = "schema-validation" -> "bug-confirmed"
      [] inproc # "success" /\ remote # "success" /\ inproc = remote -> "unrelated-failure"
      [] OTHER -> "anomalous"

\* C8: the printed verdict equals the table applied to the two outcomes.
C8_VerdictIsReporterTable ==
    ( /\ serverUp
      /\ Succeeded("inproc") \/ Failed("inproc")
      /\ Succeeded("remote") \/ Failed("remote") )
    => Verdict = ReporterTable(OutcomeOf("inproc"), OutcomeOf("remote"))

(***************************************************************************)
(* C9.  A failure in one path stays in that path: the other path's process *)
(* is never ended by it and can still take its next step.                  *)
(***************************************************************************)
C9_FailureIsContained ==
    \A p \in Paths : \A q \in Paths \ {p} :
        caught[p].thrown =>
            /\ pc[q] = "exited" => caught[q].thrown
            /\ (pc[q] \in {"start", "calling"} \/ (pc[q] = "streaming" /\ stream[q] = "open"))
                   => ENABLED PathStep(q)

C9_Witness ==
    /\ pc["remote"] = "exited"
    /\ caught["remote"].thrown
    /\ ~serverUp
    /\ CompletedWithValue("inproc")

(***************************************************************************)
(* C10.  A path waiting on a stream that stalled without closing still has *)
(* a step to take (the per-path timeout), so it never waits forever.       *)
(* Fails: neither stream loop has a timeout.                               *)
(***************************************************************************)
C10_StalledStreamTimesOut ==
    \A p \in Paths :
        (pc[p] = "streaming" /\ stream[p] = "stalled") => ENABLED PathStep(p)

(***************************************************************************)
(* Observations of a traced run.                                           *)
(***************************************************************************)
\* The loop of path p ended because the stream ended.
Consumed(p) == stream[p] = "closed"

\* The final result program prog's handler leaves after a sequence of
\* chunks, starting from fr.
RECURSIVE ConsumeAs(_, _, _)
ConsumeAs(prog, fr, chunks) ==
    IF chunks = <<>> THEN fr
    ELSE ConsumeAs(prog, FinalResultAfter(prog, fr, Head(chunks)), Tail(chunks))

\* What the result branch makes of a final result: the value it prints,
\* or nothing.
Reported(fr) == IF Truthy(fr) THEN fr ELSE "nothing"

(***************************************************************************)
(* C13.  The in-process consumer and the remote consumers end with the     *)
(* same final result on every finite event sequence: whichever script      *)
(* consumed a stream, each of the other consumers, run over the same       *)
(* chunks, reports the same value.                                         *)
(* Fails: the in-process loop looks at chunks whose type contains 'object' *)
(* or 'result' only, the remote handlers take the object of any chunk.     *)
(***************************************************************************)
C13_ConsumersAgree ==
    \A p \in Paths :
        Consumed(p) =>
            \A prog \in Scripts \cup {"inproc"} :
                Reported(ConsumeAs(prog, "null", handled[p])) = Reported(finalResult[p])

(***************************************************************************)
(* C14.  An error that reaches a catch block is never swallowed: its       *)
(* message text is printed unchanged before the run ends, whether or not   *)
(* it matches a marker, in every script.                                   *)
(***************************************************************************)
C14_CaughtErrorIsPrinted ==
    \A p \in Paths :
        caught[p].thrown =>
            /\ Finished(p)
            /\ \E i \in 1..Len(log[p]) :
                   log[p][i] = Entry("error-message", caught[p].message)

C14_Witness ==
    \E p \in Paths :
        /\ Failed(p)
        /\ caught[p].message # <<>>
        /\ ~HasTag(p, "bug-confirmed")
        /\ ~Includes(caught[p].message, MarkerAdditionalProperties)
        /\ ~Includes(caught[p].message, MarkerRequired)
        /\ ~Includes(caught[p].message, MarkerInvalidSchema)

(***************************************************************************)
(* C19.  The in-process script prints SUCCESS exactly when the call and    *)
(* the whole stream consumption completed without throwing, also when no   *)
(* final value was captured; SUCCESS and the error-classification branch   *)
(* never both occur.                                                       *)
(***************************************************************************)
C19_SuccessIffNoThrow ==
    /\ HasTag("inproc", "success")
          <=> (Consumed("inproc") /\ pc["inproc"] = "done" /\ ~caught["inproc"].thrown)
    /\ (Finished("inproc") /\ ~caught["inproc"].thrown) => HasTag("inproc", "success")
    /\ ~(HasTag("inproc", "success") /\ HasTag("inproc", "error-reproduced"))

C19_Witness ==
    /\ HasTag("inproc", "no-structured-output")
    /\ HasTag("inproc", "success")
    /\ ~Truthy(finalResult["inproc"])

(***************************************************************************)
(* C20.  The remote client of apps/client (full or minimal) exits with     *)
(* status 1 exactly when an error was thrown by network() or by the stream *)
(* processing, whatever its classification; a stream that completes, with  *)
(* or without a result, ends with status 0; an error thrown while the      *)
(* stream is processed is reported as ERROR REPRODUCED although the        *)
(* request was already reported succeeded.                                 *)
(***************************************************************************)
C20_ExitOneIffThrown ==
    script \in {"full", "minimal"} =>
        /\ exitCode["remote"] = 1 <=> caught["remote"].thrown
        /\ caught["remote"].thrown =>
               (pc["remote"] = "exited" /\ HasTag("remote", "error-reproduced"))
        /\ Consumed("remote") => (exitCode["remote"] = 0 /\ pc["remote"] = "done")
        /\ stream["remote"] = "failed" =>
               (HasTag("remote", "request-succeeded") /\ HasTag("remote", "error-reproduced"))

C20_Witness ==
    /\ script = "minimal"
    /\ stream["remote"] = "failed"
    /\ HasTag("remote", "request-succeeded")
    /\ HasTag("remote", "error-reproduced")
    /\ ~HasTag("remote", "bug-confirmed")
    /\ exitCode["remote"] = 1

(***************************************************************************)
(* What the claims about the remote handlers say of a chunk sequence.      *)
(***************************************************************************)
\* The chunk is one the remote handlers take a value from.
Captures(chunk) == chunk.type = TNetworkObjectResult \/ Truthy(chunk.object)

\* The value taken: the payload of a result chunk, the object otherwise.
CapturedValue(chunk) ==
    IF chunk.type = TNetworkObjectResult THEN chunk.payload ELSE chunk.object

CapturingAt(chunks) == {i \in 1..Len(chunks) : Captures(chunks[i])}

LastOf(indices) == CHOOSE i \in indices : \A j \in indices : j <= i

\* The value of the last capturing chunk, null when there is none.
DecidedBy(chunks) ==
    IF CapturingAt(chunks) = {} THEN "null"
    ELSE CapturedValue(chunks[LastOf(CapturingAt(chunks))])

ResultAt(chunks) == {i \in 1..Len(chunks) : chunks[i].type = TNetworkObjectResult}

Printed(p, entry) == \E i \in 1..Len(log[p]) : log[p][i] = entry

(***************************************************************************)
(* C17.  In the remote clients finalResult is decided by the last chunk    *)
(* that is of type 'network-object-result' or has a truthy object field    *)
(* (its payload in the first case, its object in the second) and is null   *)
(* when there was none; no other chunk changes it.  Stated of every point  *)
(* of the consumption, hence of its end.                                   *)
(***************************************************************************)
C17_LastCapturingChunkDecides ==
    finalResult["remote"] = DecidedBy(handled["remote"])

C17_Witness ==
    /\ Consumed("remote")
    /\ ~caught["remote"].thrown
    /\ Len(handled["remote"]) = 2
    /\ Captures(handled["remote"][1])
    /\ Truthy(CapturedValue(handled["remote"][1]))
    /\ ~Captures(handled["remote"][2])
    /\ Truthy(handled["remote"][2].payload)
    /\ finalResult["remote"] = CapturedValue(handled["remote"][1])

(***************************************************************************)
(* C18.  As claimed: whenever the stream completed without error and held  *)
(* a 'network-object-result' chunk, the client reports success with the    *)
(* value of that chunk (the last one, if several) and does not print 'No   *)
(* structured output', also when the payload is missing or falsy.          *)
(* Fails: the result branch tests finalResult for truthiness.              *)
(***************************************************************************)
C18_ResultChunkMeansSuccess ==
    (Consumed("remote") /\ ResultAt(handled["remote"]) # {})
    => /\ Printed("remote",
                  Entry("final-output",
                        <<handled["remote"][LastOf(ResultAt(handled["remote"]))].payload>>))
       /\ ~HasTag("remote", "no-structured-output")

(***************************************************************************)
(* C18, amended.  Whenever the stream completed without error the client   *)
(* reports success with the value of the last capturing chunk if that      *)
(* value is truthy, and prints 'No structured output' and no value if it   *)
(* is missing or falsy or there was no capturing chunk: a result chunk     *)
(* with a missing or falsy payload, not followed by another capturing      *)
(* chunk, is reported as 'No structured output'.                           *)
(***************************************************************************)
C18_TruthyValueMeansSuccess ==
    Consumed("remote") =>
        IF Truthy(DecidedBy(handled["remote"]))
        THEN /\ Printed("remote", Entry("final-output", <<DecidedBy(handled["remote"])>>))
             /\ ~HasTag("remote", "no-structured-output")
        ELSE /\ HasTag("remote", "no-structured-output")
             /\ ~HasTag("remote", "final-output")

C18_Witness ==
    /\ Consumed("remote")
    /\ ResultAt(handled["remote"]) # {}
    /\ LastOf(CapturingAt(handled["remote"])) \in ResultAt(handled["remote"])
    /\ ~Truthy(DecidedBy(handled["remote"]))
    /\ HasTag("remote", "no-structured-output")

(***************************************************************************)
(* C24.  In the in-process script stepCount equals the number of chunks of *)
(* type 'routing-agent-start' handled so far, and chunks of type           *)
(* 'routing-agent-start' or 'agent-execution-start' never change           *)
(* finalResult, whatever payload or object they carry: finalResult is what *)
(* the loop leaves on the handled chunks with those two types taken out.   *)
(***************************************************************************)
RoutingAt(chunks) == {i \in 1..Len(chunks) : chunks[i].type = TRoutingAgentStart}

IsStartEvent(chunk) == chunk.type \in {TRoutingAgentStart, TAgentExecutionStart}

NotStartEvent(chunk) == ~IsStartEvent(chunk)

C24_StepCountCountsRoutingStarts ==
    /\ stepCount = Cardinality(RoutingAt(handled["inproc"]))
    /\ finalResult["inproc"]
          = ConsumeAs("inproc", "null", SelectSeq(handled["inproc"], NotStartEvent))

C24_Witness ==
    /\ Consumed("inproc")
    /\ Len(handled["inproc"]) = 2
    /\ \E i \in 1..2 :
           /\ handled["inproc"][i].type = TRoutingAgentStart
           /\ Truthy(handled["inproc"][i].payload)
           /\ Truthy(handled["inproc"][i].object)
    /\ \E i \in 1..2 :
           /\ handled["inproc"][i].type = TAgentExecutionStart
           /\ Truthy(handled["inproc"][i].payload)
    /\ stepCount = 1
    /\ finalResult["inproc"] = "null"

(***************************************************************************)
(* What the claims about the interceptor say of a call.                    *)
(***************************************************************************)
\* The call carries a body: init is given and its body is not empty.
HadBody(call) == call.init.given /\ call.init.body \notin {"undefined", "''"}

\* The call is one the claims count: a string input naming openai.com,
\* with a body.
IsOpenAICall(call) ==
    call.input.isString /\ Includes(call.input.url, MarkerOpenAI) /\ HadBody(call)

ForwardsOf(i) == {k \in 1..Len(forwarded) : forwarded[k].caller = i}

NumberedLines == SelectSeq(fetchLog, LAMBDA line : line.tag = "openai-request")

(***************************************************************************)
(* C21.  The patched fetch is transparent: every call of it calls the      *)
(* original fetch exactly once, with the same input and init, and gives    *)
(* back that call's result, whatever the input and the body, also when     *)
(* reading the body throws: the promise the caller holds is pending or     *)
(* settled as the original fetch's promise is, and once that one has       *)
(* settled nothing stands in the way of the caller's settling.             *)
(***************************************************************************)
C21_InterceptorIsTransparent ==
    \A i \in 1..Len(fetchCalls) :
        /\ Cardinality(ForwardsOf(i)) = 1
        /\ \A k \in ForwardsOf(i) :
               /\ forwarded[k].input = fetchCalls[i].input
               /\ forwarded[k].init = fetchCalls[i].init
               /\ fetchCalls[i].result \in {"pending", forwarded[k].outcome}
               /\ (forwarded[k].outcome # "pending" /\ fetchCalls[i].result = "pending")
                      => ENABLED InterceptorSettles(i)

C21_Witness ==
    \E i \in 1..Len(fetchCalls) :
        /\ IsOpenAICall(fetchCalls[i])
        /\ TryBlockThrows(fetchCalls[i].init.body)
        /\ \E j \in 1..Len(fetchLog) : fetchLog[j].tag = "parse-failed"
        /\ fetchCalls[i].result = "response"

(***************************************************************************)
(* C22.  requestCount equals the number of calls made so far whose input   *)
(* was a string containing 'openai.com' and that had a body, the calls     *)
(* whose body could not be parsed included; the request numbers printed    *)
(* are strictly increasing, hence no two alike, none above requestCount,   *)
(* and they need not be consecutive.                                       *)
(***************************************************************************)
C22_RequestCountCountsOpenAICalls ==
    /\ requestCount
          = Cardinality({i \in 1..Len(fetchCalls) : IsOpenAICall(fetchCalls[i])})
    /\ \A i, j \in 1..Len(NumberedLines) :
           i < j => NumberedLines[i].n < NumberedLines[j].n
    /\ \A i \in 1..Len(NumberedLines) :
           NumberedLines[i].n \in 1..requestCount

C22_Witness ==
    /\ Len(fetchCalls) = 2
    /\ TryBlockThrows(fetchCalls[1].init.body)
    /\ fetchCalls[1].result = "pending"
    /\ requestCount = 2
    /\ Len(NumberedLines) = 1
    /\ NumberedLines[1].n = 2

====
